---- MODULE Spec2Model ----
(***************************************************************************)
(* State-machine model of microhhpy/openbc/input_from_era5.py:             *)
(* create_era5_input (the parallel driver) and the two per-timestep        *)
(* pipelines parse_scalar and parse_momentum that it runs in a             *)
(* ThreadPoolExecutor.                                                     *)
(*                                                                         *)
(* Field values are symbolic terms: every numerical kernel wraps its       *)
(* inputs in a term naming the kernel, so that what reaches a file or an   *)
(* LBC record tells which kernels ran on it and in which order.            *)
(***************************************************************************)
EXTENDS Integers, Sequences, FiniteSets, TLC

VARIABLES
    fields_era,   \* keys of the fields_era dict, in insertion order
    time_size,    \* time_era.size
    ntasks,       \* max_workers of both pools
    sigma_h,      \* filter length scale
    pc,           \* position of create_era5_input
    sigma_n,      \* filter radius in grid cells (line 446)
    lbc_ds,       \* LBC container: record key -> [writers, val]
    files,        \* files on disk: path -> [kind, writers, val]
    log,          \* logger records
    sTasks,       \* futures of the scalar pool, in submission order
    mTasks,       \* futures of the momentum pool, in submission order
    heap,         \* live field buffers: id -> [owner, val]
    ip_facs,      \* interpolation-factor tables (line 443)
    lbc_slices,   \* boundary slice map (line 465)
    num           \* numerical state of one kernel evaluation

vars == <<fields_era, time_size, ntasks, sigma_h, pc, sigma_n, lbc_ds, files,
          log, sTasks, mTasks, heap, ip_facs, lbc_slices, num>>

-----------------------------------------------------------------------------
(* Bounds of the model.                                                    *)

MaxTime == 2
MaxNtasks == 2

(* Inputs the runs are drawn from.                                         *)

KeyOrder == <<"thl", "u", "v", "qt", "w">>
AllNames == {KeyOrder[i] : i \in 1..Len(KeyOrder)}
MomentumSubsets == {{}, {"w"}, {"u", "v"}, {"u", "v", "w"}}
\* Every key set with at most one scalar; with both scalars, w is present
\* alone or with u and v.
KeySets ==
    {S \in SUBSET AllNames :
        /\ S \cap {"u", "v", "w"} \in MomentumSubsets
        /\ {"thl", "qt"} \subseteq S => S \cap {"u", "v", "w"} \in {{"w"}, {"u", "v", "w"}}}
SigmaHs == {0, 150}
dx == 100
name_suffix == ""
output_dir == "."
n_ghost == 1
n_sponge == 2

Locs == <<"west", "east", "south", "north">>
Momentum == <<"u", "v", "w">>

Range(s) == {s[i] : i \in 1..Len(s)}

-----------------------------------------------------------------------------
(* Symbolic field values.                                                  *)

Empty == [op |-> "empty", src |-> "", tab |-> "", lev |-> "", par |-> 0, in |-> <<>>]

\* interpolate_rect_to_curv(fld, fld_era[t], ip_fac, z_les, z_era[t])
Interpolate(src, t, tab, lev) ==
    [op |-> "interpolate", src |-> src, tab |-> tab, lev |-> lev, par |-> t, in |-> <<>>]

\* gaussian_filter_wrapper(fld, sigma_n)
GaussianFilter(fld, sn) ==
    [op |-> "gaussian_filter", src |-> "", tab |-> "", lev |-> "", par |-> sn, in |-> <<fld>>]

\* blend_w_to_zero_at_sfc(w, zh, zmax=500)
zmax == 500
BlendW(w) ==
    [op |-> "blend_w_to_zero_at_sfc", src |-> "", tab |-> "", lev |-> "zh", par |-> zmax, in |-> <<w>>]

\* correct_div_uv(u, v, w, ...): updates u and v in place
CorrectDiv(comp, u, v, w) ==
    [op |-> "correct_div_uv", src |-> comp, tab |-> "", lev |-> "", par |-> 0, in |-> <<u, v, w>>]

\* calc_w_from_uv(w, u, v, ...): updates w in place
CalcW(w, u, v) ==
    [op |-> "calc_w_from_uv", src |-> "w", tab |-> "", lev |-> "", par |-> 0, in |-> <<w, u, v>>]

\* check_divergence(u, v, w, ...): returns div_max, i, j, k
CheckDivergence(u, v, w) ==
    [op |-> "check_divergence", src |-> "", tab |-> "", lev |-> "", par |-> 0, in |-> <<u, v, w>>]

\* w[:-1,:,:]
DropTopLevel(w) ==
    [op |-> "drop_top_level", src |-> "", tab |-> "", lev |-> "", par |-> 0, in |-> <<w>>]

\* get_interpolation_factors(factors, name)
get_interpolation_factors_u(name) == "u"
get_interpolation_factors(name) ==
    IF name = "u" THEN "u" ELSE IF name = "v" THEN "v" ELSE "s"

\* setup_interpolations: one table per staggered location
setup_interpolations ==
    [k \in {"u", "v", "s"} |->
        IF k = "u" THEN <<"lon_u", "lat_u">>
        ELSE IF k = "v" THEN <<"lon_v", "lat_v">> ELSE <<"lon", "lat">>]

\* setup_lbc_slices(n_ghost, n_sponge): one index range per (group, side)
setup_lbc_slices(ng, ns) ==
    [k \in {"s", "u", "v", "w"} \X {"west", "east", "south", "north"} |->
        [group |-> k[1], side |-> k[2], width |-> ng + ns]]

\* lbc_slices[f'{group}_{loc}'] is a lookup: the map is left as it was.
SlicesAfterLookupsPopped(slices, groups) ==
    [k \in {q \in DOMAIN slices : q[1] \notin groups} |-> slices[k]]
SlicesAfterLookups(slices, groups) == slices

\* int(np.ceil(sigma_h / proj_pad.dx))
CeilDivSixth(a, b) == -((-a) \div (6 * b))
CeilDiv(a, b) == -((-a) \div b)

-----------------------------------------------------------------------------
(* Field buffers.                                                          *)

\* np.empty(...): a buffer no live reference points to.
NewBufferShared(h) == 1
NewBuffer(h) ==
    CHOOSE n \in 1..(Cardinality(DOMAIN h) + 1) :
        /\ n \notin DOMAIN h
        /\ \A m \in 1..(n - 1) : m \in DOMAIN h

Allocate(h, owner) ==
    LET id == NewBuffer(h) IN h @@ (id :> [owner |-> owner, val |-> Empty])

BufVal(h, id) == IF id \in DOMAIN h THEN h[id].val ELSE Empty

BufSet(h, id, v) == [h EXCEPT ![id].val = v]

\* The buffers of a task die with its frame.
Release(h, owner) ==
    LET keep == {id \in DOMAIN h : h[id].owner # owner} IN [id \in keep |-> h[id]]

-----------------------------------------------------------------------------
(* Outputs.                                                                *)

\* save_3d_field: the path of the initial-condition file.
FieldPathNoName(name, suffix, dir) ==
    IF suffix = "" THEN <<dir>> ELSE <<dir, suffix>>

FieldPath(name, suffix, dir) ==
    IF suffix = "" THEN <<dir, name>> ELSE <<dir, name, suffix>>

save_3d_field(fs, task, fld, name) ==
    LET p == FieldPath(name, name_suffix, output_dir)
        old == IF p \in DOMAIN fs THEN fs[p].writers ELSE {}
        new == [kind |-> "field3d", writers |-> old \cup {task}, val |-> fld]
    IN [q \in DOMAIN fs \cup {p} |-> IF q = p THEN new ELSE fs[q]]

\* create_lbc_ds: one empty record per (variable, side, time).
create_lbc_ds(names, nt) ==
    [r \in {<<n, Locs[l], t>> : n \in Range(names), l \in 1..Len(Locs), t \in 0..(nt - 1)}
        |-> [writers |-> {}, val |-> Empty]]

\* The time record a task with timestep t assigns to.
LbcRecordFirst(t) == 0
LbcRecord(t) == t

\* lbc_ds[f'{name}_{loc}'][t,:,:,:] = fld[lbc_slice]
LbcWrite(ds, task, name, loc, t, fld) ==
    [ds EXCEPT ![<<name, loc, LbcRecord(t)>>] =
        [writers |-> @.writers \cup {task}, val |-> fld]]

\* parse_scalar: for loc in ('west', 'east', 'south', 'north')
RECURSIVE ScalarLbcLoop(_, _, _, _, _, _)
ScalarLbcLoop(ds, task, name, t, fld, l) ==
    IF l > Len(Locs) THEN ds
    ELSE ScalarLbcLoop(LbcWrite(ds, task, name, Locs[l], t, fld), task, name, t, fld, l + 1)

\* parse_momentum: for loc in ('west', 'east', 'south', 'north'): u, v, w
RECURSIVE MomentumLbcLoop(_, _, _, _, _, _, _)
MomentumLbcLoop(ds, task, t, u, v, w, l) ==
    IF l > Len(Locs) THEN ds
    ELSE LET d1 == LbcWrite(ds, task, "u", Locs[l], t, u)
             d2 == LbcWrite(d1, task, "v", Locs[l], t, v)
             d3 == LbcWrite(d2, task, "w", Locs[l], t, w)
         IN MomentumLbcLoop(d3, task, t, u, v, w, l + 1)

-----------------------------------------------------------------------------
(* Futures.                                                                *)

Running(st) == st \notin {"pending", "done", "failed", "cancelled"}

\* Future.done(): the driver's result() and shutdown(wait=True) block on it.
FutureDoneNoWait(st) == TRUE
FutureDone(st) == st \in {"done", "failed", "cancelled"}

NumRunning(ts) == Cardinality({i \in 1..Len(ts) : Running(ts[i].pc)})

\* A worker thread takes the head of the pool's work queue.
CanStartUnbounded(ts, i) ==
    /\ i \in 1..Len(ts)
    /\ ts[i].pc = "pending"
    /\ \A j \in 1..(i - 1) : ts[j].pc # "pending"

CanStartNoReuse(ts, i) ==
    /\ i \in 1..Len(ts)
    /\ ts[i].pc = "pending"
    /\ \A j \in 1..(i - 1) : ts[j].pc # "pending"
    /\ NumRunning(ts) < ntasks
    /\ i <= ntasks

CanStart(ts, i) ==
    /\ i \in 1..Len(ts)
    /\ ts[i].pc = "pending"
    /\ \A j \in 1..(i - 1) : ts[j].pc # "pending"
    /\ NumRunning(ts) < ntasks

\* Future.result() re-raises the exception the call ended with.
HoldsExceptionNever(st) == FALSE
HoldsException(st) == st = "failed"

\* list(executor.map(...)) returned every result.
AllResults(ts) == \A i \in 1..Len(ts) : FutureDone(ts[i].pc) /\ ~HoldsException(ts[i].pc)

\* list(executor.map(...)) reached, in order, a future holding an exception.
FirstException(ts, i) ==
    /\ i \in 1..Len(ts)
    /\ HoldsException(ts[i].pc)
    /\ \A j \in 1..(i - 1) : FutureDone(ts[j].pc) /\ ~HoldsException(ts[j].pc)

\* result_iterator's finally: cancel the futures not yet collected.
CancelPending(ts) ==
    [i \in 1..Len(ts) |->
        IF ts[i].pc = "pending" THEN [ts[i] EXCEPT !.pc = "cancelled"] ELSE ts[i]]

\* ThreadPoolExecutor.__exit__: shutdown(wait=True).
PoolJoined(ts) == \A i \in 1..Len(ts) : FutureDone(ts[i].pc)

-----------------------------------------------------------------------------
(* create_era5_input: the task lists.                                      *)

\* for name in fields_era: if name not in ('u','v','w'): for t in range(time_era.size)
IsScalarAll(name) == TRUE
IsScalar(name) == name \notin Range(Momentum)

RECURSIVE TimeLoop(_, _, _)
TimeLoop(name, t, nt) ==
    IF t >= nt THEN <<>>
    ELSE <<[name |-> name, t |-> t, pc |-> "pending", fld |-> 0]>> \o TimeLoop(name, t + 1, nt)

RECURSIVE ScalarArgs(_, _)
ScalarArgs(names, nt) ==
    IF names = <<>> THEN <<>>
    ELSE (IF IsScalar(Head(names)) THEN TimeLoop(Head(names), 0, nt) ELSE <<>>)
         \o ScalarArgs(Tail(names), nt)

\* any(fld not in fields_era for fld in ('u', 'v', 'w'))
MomentumMissingAll(names) == \A i \in 1..Len(Momentum) : Momentum[i] \notin Range(names)
MomentumMissing(names) == \E i \in 1..Len(Momentum) : Momentum[i] \notin Range(names)

\* logger.warning('One or more momentum fields missing! Skipping momentum...')
MomentumWarningSilent(names) == {}
MomentumWarning(names) ==
    {[level |-> "warning", msg |-> "momentum_missing", t |-> 0, val |-> Empty]}

RECURSIVE MomentumArgsFrom(_, _)
MomentumArgsFrom(t, nt) ==
    IF t >= nt THEN <<>>
    ELSE <<[t |-> t, pc |-> "pending", u |-> 0, v |-> 0, w |-> 0]>> \o MomentumArgsFrom(t + 1, nt)

MomentumArgs(nt) == MomentumArgsFrom(0, nt)

STask(i) == <<"scalar", i>>
MTask(i) == <<"momentum", i>>

-----------------------------------------------------------------------------
(* parse_scalar: control flow.                                             *)

ScalarAfterFilterNonzero(step, sn, t) ==
    CASE step = "start" -> "interpolate"
      [] step = "interpolate" -> IF sn # 0 THEN "filter" ELSE IF t = 0 THEN "save" ELSE "lbc"
      [] step = "filter" -> IF t = 0 THEN "save" ELSE "lbc"
      [] step = "save" -> "lbc"
      [] OTHER -> "done"

ScalarAfterAlwaysSave(step, sn, t) ==
    CASE step = "start" -> "interpolate"
      [] step = "interpolate" -> IF sn > 0 THEN "filter" ELSE "save"
      [] step = "filter" -> "save"
      [] step = "save" -> "lbc"
      [] OTHER -> "done"

ScalarAfter(step, sn, t) ==
    CASE step = "start" -> "interpolate"
      [] step = "interpolate" -> IF sn > 0 THEN "filter" ELSE IF t = 0 THEN "save" ELSE "lbc"
      [] step = "filter" -> IF t = 0 THEN "save" ELSE "lbc"
      [] step = "save" -> "lbc"
      [] OTHER -> "done"

-----------------------------------------------------------------------------
(* parse_momentum: control flow.                                           *)

MomentumAfterCorrectFirst(step, sn, t) ==
    CASE step = "start" -> "interpolate_u"
      [] step = "interpolate_u" -> "interpolate_v"
      [] step = "interpolate_v" -> "interpolate_w"
      [] step = "interpolate_w" -> IF sn > 0 THEN "filter" ELSE "correct_div"
      [] step = "filter" -> "correct_div"
      [] step = "correct_div" -> "blend"
      [] step = "blend" -> "calc_w"
      [] step = "calc_w" -> "check_div"
      [] step = "check_div" -> IF t = 0 THEN "save" ELSE "lbc"
      [] step = "save" -> "lbc"
      [] OTHER -> "done"

MomentumAfterFatalCheck(step, sn, t) ==
    CASE step = "start" -> "interpolate_u"
      [] step = "interpolate_u" -> "interpolate_v"
      [] step = "interpolate_v" -> "interpolate_w"
      [] step = "interpolate_w" -> IF sn > 0 THEN "filter" ELSE "blend"
      [] step = "filter" -> "blend"
      [] step = "blend" -> "correct_div"
      [] step = "correct_div" -> "calc_w"
      [] step = "calc_w" -> "check_div"
      [] step = "check_div" -> "failed"
      [] step = "save" -> "lbc"
      [] OTHER -> "done"

MomentumAfter(step, sn, t) ==
    CASE step = "start" -> "interpolate_u"
      [] step = "interpolate_u" -> "interpolate_v"
      [] step = "interpolate_v" -> "interpolate_w"
      [] step = "interpolate_w" -> IF sn > 0 THEN "filter" ELSE "blend"
      [] step = "filter" -> "blend"
      [] step = "blend" -> "correct_div"
      [] step = "correct_div" -> "calc_w"
      [] step = "calc_w" -> "check_div"
      [] step = "check_div" -> IF t = 0 THEN "save" ELSE "lbc"
      [] step = "save" -> "lbc"
      [] OTHER -> "done"

-----------------------------------------------------------------------------
Init ==
    /\ fields_era \in {SelectSeq(KeyOrder, LAMBDA n : n \in S) : S \in KeySets}
    /\ time_size \in 0..MaxTime
    /\ ntasks \in 1..MaxNtasks
    /\ sigma_h \in SigmaHs
    /\ pc = "setup"
    /\ sigma_n = 0
    /\ lbc_ds = <<>>
    /\ files = <<>>
    /\ log = {}
    /\ sTasks = <<>>
    /\ mTasks = <<>>
    /\ heap = <<>>
    /\ ip_facs = <<>>
    /\ lbc_slices = <<>>
    /\ num = <<>>

inputs == <<fields_era, time_size, ntasks, sigma_h>>
const == <<inputs, ip_facs, lbc_slices, num>>

(* create_era5_input, lines 434-465 *)
Setup ==
    /\ pc = "setup"
    /\ sigma_n' = CeilDiv(sigma_h, dx)
    /\ ip_facs' = setup_interpolations
    /\ lbc_ds' = create_lbc_ds(fields_era, time_size)
    /\ lbc_slices' = setup_lbc_slices(n_ghost, n_sponge)
    /\ pc' = "scalar_submit"
    /\ UNCHANGED <<inputs, num, files, log, sTasks, mTasks, heap>>

(* lines 472-500: build args, executor.map submits every task *)
ScalarSubmit ==
    /\ pc = "scalar_submit"
    /\ sTasks' = ScalarArgs(fields_era, time_size)
    /\ pc' = "scalar_wait"
    /\ UNCHANGED <<const, sigma_n, lbc_ds, files, log, mTasks, heap>>

(* line 500 returns with all results; the with block exits *)
ScalarJoin ==
    /\ pc = "scalar_wait"
    /\ AllResults(sTasks)
    /\ PoolJoined(sTasks)
    /\ pc' = "momentum_check"
    /\ UNCHANGED <<const, sigma_n, lbc_ds, files, log, sTasks, mTasks, heap>>

(* line 500 re-raises a task's exception; pending futures are cancelled *)
ScalarRaise ==
    /\ pc = "scalar_wait"
    /\ \E i \in 1..Len(sTasks) : FirstException(sTasks, i)
    /\ sTasks' = CancelPending(sTasks)
    /\ pc' = "scalar_unwind"
    /\ UNCHANGED <<const, sigma_n, lbc_ds, files, log, mTasks, heap>>

(* the with block unwinds: shutdown(wait=True), then the exception leaves *)
ScalarUnwind ==
    /\ pc = "scalar_unwind"
    /\ PoolJoined(sTasks)
    /\ pc' = "raised"
    /\ UNCHANGED <<const, sigma_n, lbc_ds, files, log, sTasks, mTasks, heap>>

(* lines 510-511 *)
MomentumSkip ==
    /\ pc = "momentum_check"
    /\ MomentumMissing(fields_era)
    /\ log' = log \cup MomentumWarning(fields_era)
    /\ pc' = "returned"
    /\ UNCHANGED <<const, sigma_n, lbc_ds, files, sTasks, mTasks, heap>>

(* lines 512-549: build args, executor.map submits every task *)
MomentumSubmit ==
    /\ pc = "momentum_check"
    /\ ~MomentumMissing(fields_era)
    /\ mTasks' = MomentumArgs(time_size)
    /\ pc' = "momentum_wait"
    /\ UNCHANGED <<const, sigma_n, lbc_ds, files, log, sTasks, heap>>

MomentumJoin ==
    /\ pc = "momentum_wait"
    /\ AllResults(mTasks)
    /\ PoolJoined(mTasks)
    /\ pc' = "returned"
    /\ UNCHANGED <<const, sigma_n, lbc_ds, files, log, sTasks, mTasks, heap>>

MomentumRaise ==
    /\ pc = "momentum_wait"
    /\ \E i \in 1..Len(mTasks) : FirstException(mTasks, i)
    /\ mTasks' = CancelPending(mTasks)
    /\ pc' = "momentum_unwind"
    /\ UNCHANGED <<const, sigma_n, lbc_ds, files, log, sTasks, heap>>

MomentumUnwind ==
    /\ pc = "momentum_unwind"
    /\ PoolJoined(mTasks)
    /\ pc' = "raised"
    /\ UNCHANGED <<const, sigma_n, lbc_ds, files, log, sTasks, mTasks, heap>>

-----------------------------------------------------------------------------
(* parse_scalar, one action per step of task i.                            *)

SGoto(i, step) ==
    sTasks' = [sTasks EXCEPT ![i].pc = ScalarAfter(step, sigma_n, sTasks[i].t)]

(* a worker dequeues the work item; parse_scalar allocates fld_les (lines 179-182) *)
ScalarStart(i) ==
    /\ CanStart(sTasks, i)
    /\ heap' = Allocate(heap, STask(i))
    /\ sTasks' = [sTasks EXCEPT ![i].pc = ScalarAfter("start", sigma_n, sTasks[i].t),
                                ![i].fld = NewBuffer(heap)]
    /\ UNCHANGED <<const, pc, sigma_n, lbc_ds, files, log, mTasks>>

(* lines 185-194 *)
ScalarInterpolate(i) ==
    /\ i \in 1..Len(sTasks)
    /\ sTasks[i].pc = "interpolate"
    /\ heap' = BufSet(heap, sTasks[i].fld,
                      Interpolate(sTasks[i].name, sTasks[i].t,
                                  get_interpolation_factors("s"), "z"))
    /\ SGoto(i, "interpolate")
    /\ UNCHANGED <<const, pc, sigma_n, lbc_ds, files, log, mTasks>>

(* lines 185-194: an out-of-range index aborts the call *)
ScalarInterpolateRaises(i) ==
    /\ i \in 1..Len(sTasks)
    /\ sTasks[i].pc = "interpolate"
    /\ heap' = Release(heap, STask(i))
    /\ sTasks' = [sTasks EXCEPT ![i].pc = "failed", ![i].fld = 0]
    /\ UNCHANGED <<const, pc, sigma_n, lbc_ds, files, log, mTasks>>

(* lines 197-198 *)
ScalarFilter(i) ==
    /\ i \in 1..Len(sTasks)
    /\ sTasks[i].pc = "filter"
    /\ heap' = BufSet(heap, sTasks[i].fld, GaussianFilter(BufVal(heap, sTasks[i].fld), sigma_n))
    /\ SGoto(i, "filter")
    /\ UNCHANGED <<const, pc, sigma_n, lbc_ds, files, log, mTasks>>

(* lines 201-202 *)
ScalarSave(i) ==
    /\ i \in 1..Len(sTasks)
    /\ sTasks[i].pc = "save"
    /\ files' = save_3d_field(files, STask(i), BufVal(heap, sTasks[i].fld), sTasks[i].name)
    /\ SGoto(i, "save")
    /\ UNCHANGED <<const, pc, sigma_n, lbc_ds, log, mTasks, heap>>

(* lines 205-207: the loop over the four sides; then the task returns *)
ScalarLbc(i) ==
    /\ i \in 1..Len(sTasks)
    /\ sTasks[i].pc = "lbc"
    /\ lbc_ds' = ScalarLbcLoop(lbc_ds, STask(i), sTasks[i].name, sTasks[i].t,
                               BufVal(heap, sTasks[i].fld), 1)
    /\ sTasks' = [sTasks EXCEPT ![i].pc = ScalarAfter("lbc", sigma_n, sTasks[i].t),
                                ![i].fld = 0]
    /\ heap' = Release(heap, STask(i))
    /\ lbc_slices' = SlicesAfterLookups(lbc_slices, {"s"})
    /\ UNCHANGED <<inputs, ip_facs, num, pc, sigma_n, files, log, mTasks>>

ScalarStep(i) ==
    \/ ScalarStart(i)
    \/ ScalarInterpolate(i)
    \/ ScalarInterpolateRaises(i)
    \/ ScalarFilter(i)
    \/ ScalarSave(i)
    \/ ScalarLbc(i)

-----------------------------------------------------------------------------
(* parse_momentum, one action per step of task i.                          *)

MGoto(i, step) ==
    mTasks' = [mTasks EXCEPT ![i].pc = MomentumAfter(step, sigma_n, mTasks[i].t)]

(* a worker dequeues the work item; parse_momentum allocates u, v, w (lines 291-296) *)
MomentumStart(i) ==
    /\ CanStart(mTasks, i)
    /\ LET h1 == Allocate(heap, MTask(i))
           h2 == Allocate(h1, MTask(i))
       IN /\ heap' = Allocate(h2, MTask(i))
          /\ mTasks' = [mTasks EXCEPT
                            ![i].pc = MomentumAfter("start", sigma_n, mTasks[i].t),
                            ![i].u = NewBuffer(heap),
                            ![i].v = NewBuffer(h1),
                            ![i].w = NewBuffer(h2)]
    /\ UNCHANGED <<const, pc, sigma_n, lbc_ds, files, log, sTasks>>

(* lines 299-330: u and v on full levels, w on half levels *)
MomentumInterpolate(i, c) ==
    /\ i \in 1..Len(mTasks)
    /\ c \in 1..Len(Momentum)
    /\ mTasks[i].pc = "interpolate_" \o Momentum[c]
    /\ heap' =
        CASE c = 1 -> BufSet(heap, mTasks[i].u,
                             Interpolate("u", mTasks[i].t, get_interpolation_factors("u"), "z"))
          [] c = 2 -> BufSet(heap, mTasks[i].v,
                             Interpolate("v", mTasks[i].t, get_interpolation_factors("v"), "z"))
          [] OTHER -> BufSet(heap, mTasks[i].w,
                             Interpolate("w", mTasks[i].t, get_interpolation_factors("s"), "zh"))
    /\ MGoto(i, "interpolate_" \o Momentum[c])
    /\ UNCHANGED <<const, pc, sigma_n, lbc_ds, files, log, sTasks>>

(* lines 299-330: an out-of-range index aborts the call *)
MomentumInterpolateRaises(i, c) ==
    /\ i \in 1..Len(mTasks)
    /\ c \in 1..Len(Momentum)
    /\ mTasks[i].pc = "interpolate_" \o Momentum[c]
    /\ heap' = Release(heap, MTask(i))
    /\ mTasks' = [mTasks EXCEPT ![i].pc = "failed", ![i].u = 0, ![i].v = 0, ![i].w = 0]
    /\ UNCHANGED <<const, pc, sigma_n, lbc_ds, files, log, sTasks>>

(* lines 333-336 *)
MomentumFilter(i) ==
    /\ i \in 1..Len(mTasks)
    /\ mTasks[i].pc = "filter"
    /\ LET h1 == BufSet(heap, mTasks[i].u, GaussianFilter(BufVal(heap, mTasks[i].u), sigma_n))
           h2 == BufSet(h1, mTasks[i].v, GaussianFilter(BufVal(h1, mTasks[i].v), sigma_n))
       IN heap' = BufSet(h2, mTasks[i].w, GaussianFilter(BufVal(h2, mTasks[i].w), sigma_n))
    /\ MGoto(i, "filter")
    /\ UNCHANGED <<const, pc, sigma_n, lbc_ds, files, log, sTasks>>

(* line 341 *)
MomentumBlend(i) ==
    /\ i \in 1..Len(mTasks)
    /\ mTasks[i].pc = "blend"
    /\ heap' = BufSet(heap, mTasks[i].w, BlendW(BufVal(heap, mTasks[i].w)))
    /\ MGoto(i, "blend")
    /\ UNCHANGED <<const, pc, sigma_n, lbc_ds, files, log, sTasks>>

(* lines 344-356 *)
MomentumCorrectDiv(i) ==
    /\ i \in 1..Len(mTasks)
    /\ mTasks[i].pc = "correct_div"
    /\ LET u == BufVal(heap, mTasks[i].u)
           v == BufVal(heap, mTasks[i].v)
           w == BufVal(heap, mTasks[i].w)
           h1 == BufSet(heap, mTasks[i].u, CorrectDiv("u", u, v, w))
       IN heap' = BufSet(h1, mTasks[i].v, CorrectDiv("v", u, v, w))
    /\ MGoto(i, "correct_div")
    /\ UNCHANGED <<const, pc, sigma_n, lbc_ds, files, log, sTasks>>

(* lines 361-374 *)
MomentumCalcW(i) ==
    /\ i \in 1..Len(mTasks)
    /\ mTasks[i].pc = "calc_w"
    /\ heap' = BufSet(heap, mTasks[i].w,
                      CalcW(BufVal(heap, mTasks[i].w), BufVal(heap, mTasks[i].u),
                            BufVal(heap, mTasks[i].v)))
    /\ MGoto(i, "calc_w")
    /\ UNCHANGED <<const, pc, sigma_n, lbc_ds, files, log, sTasks>>

(* lines 377-391 *)
MomentumCheckDiv(i) ==
    /\ i \in 1..Len(mTasks)
    /\ mTasks[i].pc = "check_div"
    /\ log' = log \cup {[level |-> "debug", msg |-> "max_divergence", t |-> mTasks[i].t,
                         val |-> CheckDivergence(BufVal(heap, mTasks[i].u),
                                                 BufVal(heap, mTasks[i].v),
                                                 BufVal(heap, mTasks[i].w))]}
    /\ MGoto(i, "check_div")
    /\ UNCHANGED <<const, pc, sigma_n, lbc_ds, files, sTasks, heap>>

(* lines 394-397 *)
MomentumSave(i) ==
    /\ i \in 1..Len(mTasks)
    /\ mTasks[i].pc = "save"
    /\ LET f1 == save_3d_field(files, MTask(i), BufVal(heap, mTasks[i].u), "u")
           f2 == save_3d_field(f1, MTask(i), BufVal(heap, mTasks[i].v), "v")
       IN files' = save_3d_field(f2, MTask(i), DropTopLevel(BufVal(heap, mTasks[i].w)), "w")
    /\ MGoto(i, "save")
    /\ UNCHANGED <<const, pc, sigma_n, lbc_ds, log, sTasks, heap>>

(* lines 400-408: the loop over the four sides; then the task returns *)
MomentumLbc(i) ==
    /\ i \in 1..Len(mTasks)
    /\ mTasks[i].pc = "lbc"
    /\ lbc_ds' = MomentumLbcLoop(lbc_ds, MTask(i), mTasks[i].t, BufVal(heap, mTasks[i].u),
                                 BufVal(heap, mTasks[i].v), BufVal(heap, mTasks[i].w), 1)
    /\ mTasks' = [mTasks EXCEPT ![i].pc = MomentumAfter("lbc", sigma_n, mTasks[i].t),
                                ![i].u = 0, ![i].v = 0, ![i].w = 0]
    /\ heap' = Release(heap, MTask(i))
    /\ lbc_slices' = SlicesAfterLookups(lbc_slices, {"u", "v", "w"})
    /\ UNCHANGED <<inputs, ip_facs, num, pc, sigma_n, files, log, sTasks>>

MomentumStep(i) ==
    \/ MomentumStart(i)
    \/ \E c \in 1..Len(Momentum) : MomentumInterpolate(i, c)
    \/ \E c \in 1..Len(Momentum) : MomentumInterpolateRaises(i, c)
    \/ MomentumFilter(i)
    \/ MomentumBlend(i)
    \/ MomentumCorrectDiv(i)
    \/ MomentumCalcW(i)
    \/ MomentumCheckDiv(i)
    \/ MomentumSave(i)
    \/ MomentumLbc(i)

MaxScalarTasks == Cardinality(AllNames) * MaxTime

Next ==
    \/ Setup
    \/ ScalarSubmit
    \/ ScalarJoin
    \/ ScalarRaise
    \/ ScalarUnwind
    \/ MomentumSkip
    \/ MomentumSubmit
    \/ MomentumJoin
    \/ MomentumRaise
    \/ MomentumUnwind
    \/ \E i \in 1..MaxScalarTasks : ScalarStep(i)
    \/ \E i \in 1..MaxTime : MomentumStep(i)

Spec == Init /\ [][Next]_vars

-----------------------------------------------------------------------------
(* The run under fair scheduling: the driver thread and every worker that  *)
(* holds or can take a task keep being scheduled, and a task's steps end.  *)

Driver ==
    \/ Setup
    \/ ScalarSubmit
    \/ ScalarJoin
    \/ ScalarRaise
    \/ ScalarUnwind
    \/ MomentumSkip
    \/ MomentumSubmit
    \/ MomentumJoin
    \/ MomentumRaise
    \/ MomentumUnwind

LiveKeySets == {<<"u", "v", "w">>, <<"thl">>, <<"thl", "u", "v", "w">>}

LiveInit ==
    /\ fields_era \in LiveKeySets
    /\ time_size \in 0..MaxTime
    /\ ntasks \in 1..MaxNtasks
    /\ sigma_h \in SigmaHs
    /\ pc = "setup"
    /\ sigma_n = 0
    /\ lbc_ds = <<>>
    /\ files = <<>>
    /\ log = {}
    /\ sTasks = <<>>
    /\ mTasks = <<>>
    /\ heap = <<>>
    /\ ip_facs = <<>>
    /\ lbc_slices = <<>>
    /\ num = <<>>

Fairness ==
    /\ WF_vars(Driver)
    /\ \A i \in 1..MaxScalarTasks : WF_vars(ScalarStep(i))
    /\ \A i \in 1..MaxTime : WF_vars(MomentumStep(i))

LiveSpec == LiveInit /\ [][Next]_vars /\ Fairness

-----------------------------------------------------------------------------
(* The same run for filter lengths of either sign: sigma_n is negative,    *)
(* zero or positive (line 446).                                            *)

FilterSigmaHs == {-150, 0, 50, 100, 150}
FilterKeySets == {<<"thl">>, <<"thl", "u", "v", "w">>}

FilterInit ==
    /\ fields_era \in FilterKeySets
    /\ time_size \in 1..MaxTime
    /\ ntasks \in 1..MaxNtasks
    /\ sigma_h \in FilterSigmaHs
    /\ pc = "setup"
    /\ sigma_n = 0
    /\ lbc_ds = <<>>
    /\ files = <<>>
    /\ log = {}
    /\ sTasks = <<>>
    /\ mTasks = <<>>
    /\ heap = <<>>
    /\ ip_facs = <<>>
    /\ lbc_slices = <<>>
    /\ num = <<>>

FilterSpec == FilterInit /\ [][Next]_vars

-----------------------------------------------------------------------------
(* The numerical kernels of one parse_momentum call on a small staggered   *)
(* grid with one ring of padding, in exact rational arithmetic, and the    *)
(* slice written by save_3d_field.                                         *)

NumLevels == 3       \* dz.size
NumColumns == 2      \* interior columns in x
MaxPad == 1          \* save_3d_field: n_pad in 0..MaxPad
MaxInterior == 2     \* save_3d_field: interior rows and columns
MaxSaveLevels == 2   \* save_3d_field: levels

\* Rationals are normalised pairs <<numerator, denominator>>.
RECURSIVE Gcd(_, _)
Gcd(a, b) == IF b = 0 THEN a ELSE Gcd(b, a % b)
Abs(a) == IF a < 0 THEN -a ELSE a
Rat(n, d) ==
    LET g == Gcd(Abs(n), Abs(d))
        sgn == IF d < 0 THEN -1 ELSE 1
    IN  <<(sgn * n) \div g, (sgn * d) \div g>>
RSub(a, b) == Rat(a[1] * b[2] - b[1] * a[2], a[2] * b[2])
RAdd(a, b) == Rat(a[1] * b[2] + b[1] * a[2], a[2] * b[2])
RScale(a, n, d) == Rat(a[1] * n, a[2] * d)
RAbs(a) == <<Abs(a[1]), a[2]>>
RLess(a, b) == a[1] * b[2] < b[1] * a[2]

\* Vertical grid: spacings, half-level heights, base-state density.
dz(k) == IF k = 1 THEN 100 ELSE 400
RECURSIVE zh(_)
zh(k) == IF k = 1 THEN 0 ELSE zh(k - 1) + dz(k - 1)
dzSeq == [k \in 1..NumLevels |-> dz(k)]
rho(r, k) == 12 - r * 2 * k
rhoh(r, k) == 12 - r * (2 * k - 1)

\* Padded horizontal grid and its interior bounds (inclusive).
itot_pad == NumColumns + 2
jtot_pad == 3
istart_pad == 2
iend_pad == NumColumns + 1
jstart_pad == 2
jend_pad == 2

\* Fields as they leave the interpolator or the filter.
UFields ==
    {[k \in 1..NumLevels |-> [j \in 1..jtot_pad |-> [i \in 1..itot_pad |->
        a * i * i + b * k + j]]] : a \in {0, 1}, b \in {0, -2}}
VFields ==
    {[k \in 1..NumLevels |-> [j \in 1..jtot_pad |-> [i \in 1..itot_pad |->
        c * j * (i + k)]]] : c \in {0, 3}}
WFields ==
    {[k \in 1..(NumLevels + 1) |-> [j \in 1..jtot_pad |-> [i \in 1..itot_pad |->
        <<s + e * k * i, 1>>]]] : s \in {0, 7}, e \in {0, -1}}

\* blend_w_to_zero_at_sfc(w, zh, zmax): linear ramp from 0 at the surface to
\* 1 at zmax; half levels at or above zmax are left as they are.
blend_w_to_zero_at_sfc(w, zm) ==
    [k \in DOMAIN w |-> [j \in DOMAIN w[k] |-> [i \in DOMAIN w[k][j] |->
        IF zh(k) < zm THEN RScale(w[k][j][i], zh(k) - zh(1), zm - zh(1))
        ELSE w[k][j][i]]]]

\* Horizontal divergence of (u, v) on the C-grid at full level k.
HDiv(u, v, k, j, i) ==
    RAdd(Rat(u[k][j][i + 1] - u[k][j][i], dx), Rat(v[k][j + 1][i] - v[k][j][i], dx))

\* The level count handed to the reconstructor and to the diagnostic.
ktot_calc_w_short(dzs) == Len(dzs) - 1
ktot_calc_w(dzs) == Len(dzs)
ktot_check_div(dzs) == Len(dzs)

Interior(j, i) ==
    /\ i \in istart_pad..iend_pad
    /\ j \in jstart_pad..jend_pad

\* calc_w_from_uv: w = 0 at the lowest half level, then continuity in flux
\* form upward over ktot levels, at the interior points.
RECURSIVE WColumn(_, _, _, _, _, _)
WColumn(u, v, r, k, j, i) ==
    IF k = 1 THEN <<0, 1>>
    ELSE LET below == WColumn(u, v, r, k - 1, j, i)
             flux == RSub(RScale(below, rhoh(r, k - 1), 1),
                          RScale(HDiv(u, v, k - 1, j, i), rho(r, k - 1) * dz(k - 1), 1))
         IN  RScale(flux, 1, rhoh(r, k))

calc_w_from_uv(w, u, v, r, ktot) ==
    [k \in DOMAIN w |-> [j \in DOMAIN w[k] |-> [i \in DOMAIN w[k][j] |->
        IF Interior(j, i) /\ k <= ktot + 1 THEN WColumn(u, v, r, k, j, i)
        ELSE w[k][j][i]]]]

\* check_divergence: the continuity residual at every interior point and
\* level, its largest magnitude and where that is.
Residual(u, v, w, r, k, j, i) ==
    RAdd(RScale(HDiv(u, v, k, j, i), rho(r, k), 1),
         RScale(RSub(RScale(w[k + 1][j][i], rhoh(r, k + 1), 1),
                     RScale(w[k][j][i], rhoh(r, k), 1)), 1, dz(k)))

check_divergence(u, v, w, r, ktot) ==
    LET pts == {p \in (1..ktot) \X (1..jtot_pad) \X (1..itot_pad) : Interior(p[2], p[3])}
        res == [p \in pts |-> Residual(u, v, w, r, p[1], p[2], p[3])]
        at == CHOOSE p \in pts : \A q \in pts : ~RLess(RAbs(res[p]), RAbs(res[q]))
    IN  [div_max |-> RAbs(res[at]), at |-> at, res |-> res]

\* Python's fld[lo:hi] on an axis of length n: the 0-based indices selected.
PyIndex(x, n) ==
    IF x < 0 THEN (IF x + n < 0 THEN 0 ELSE x + n) ELSE (IF x > n THEN n ELSE x)
PySliceStart(lo, hi, n) == PyIndex(lo, n)
PySliceLen(lo, hi, n) ==
    IF PyIndex(hi, n) > PyIndex(lo, n) THEN PyIndex(hi, n) - PyIndex(lo, n) ELSE 0

\* fld[:, n_pad:-n_pad, n_pad:-n_pad].tofile(f_out): the <<k, j, i>> indices
\* (0-based) of the elements written, in file order (C order).
TofileInterior(ktot, jtot, itot, n_pad) ==
    LET j0 == PySliceStart(n_pad, -n_pad, jtot)
        nj == PySliceLen(n_pad, -n_pad, jtot)
        i0 == PySliceStart(n_pad, -n_pad, itot)
        ni == PySliceLen(n_pad, -n_pad, itot)
    IN  [p \in 1..(ktot * nj * ni) |->
            <<(p - 1) \div (nj * ni),
              j0 + ((p - 1) % (nj * ni)) \div ni,
              i0 + ((p - 1) % ni)>>]

\* domain.n_pad of the kernel grid: one ring of padding.
n_pad_grid == 1

\* u[:,:,:] and w[:-1,:,:]: the levels handed to save_3d_field.
AllLevels(fld) == fld
SliceNothingOff(fld) == fld
SliceTopOff(fld) ==
    [k \in 1..PySliceLen(0, -1, Len(fld)) |-> fld[PySliceStart(0, -1, Len(fld)) + k]]

\* The values save_3d_field puts in the file, in file order.
SavedField(fld) ==
    LET idx == TofileInterior(Len(fld), jtot_pad, itot_pad, n_pad_grid)
    IN  [p \in DOMAIN idx |-> fld[idx[p][1] + 1][idx[p][2] + 1][idx[p][3] + 1]]

\* vgrid.zh[:-1]: the number of half levels of the LBC container.
lbc_zh_levels == PySliceLen(0, -1, NumLevels + 1)

MomentumKernelInputs ==
    [kernel : {"parse_momentum"}, pc : {"interpolate_w"}, t : {0, 1},
     sn : {-1, 0, 1}, r : {0, 1},
     u : UFields, v : VFields, w : WFields, w_in : {<<>>}, div : {<<>>},
     ic : {<<>>}]

SaveKernelInputs ==
    {[kernel |-> "save_3d_field", pc |-> "start", n_pad |-> n,
      ktot |-> nk, jtot |-> nj + 2 * n, itot |-> ni + 2 * n, out |-> <<>>] :
        n \in 0..MaxPad, nk \in 1..MaxSaveLevels,
        nj \in 1..MaxInterior, ni \in 1..MaxInterior}

KInit ==
    /\ \/ num \in MomentumKernelInputs
       \/ num \in SaveKernelInputs
    /\ pc = "kernels"
    /\ fields_era = <<>>
    /\ time_size = 0
    /\ ntasks = 1
    /\ sigma_h = 0
    /\ sigma_n = 0
    /\ lbc_ds = <<>>
    /\ files = <<>>
    /\ log = {}
    /\ sTasks = <<>>
    /\ mTasks = <<>>
    /\ heap = <<>>
    /\ ip_facs = <<>>
    /\ lbc_slices = <<>>

pipeline == <<inputs, pc, sigma_n, lbc_ds, files, log, sTasks, mTasks, heap,
              ip_facs, lbc_slices>>

KAt(step) ==
    /\ pc = "kernels"
    /\ num.kernel = "parse_momentum"
    /\ MomentumAfter(num.pc, num.sn, num.t) = step

(* lines 333-336: the smoothing weights are not in this file; the filter   *)
(* leaves some field of the same shape in each of u, v, w.                 *)
KFilter ==
    /\ KAt("filter")
    /\ \E u \in UFields, v \in VFields, w \in WFields :
          num' = [num EXCEPT !.pc = "filter", !.u = u, !.v = v, !.w = w]
    /\ UNCHANGED pipeline

(* line 341 *)
KBlend ==
    /\ KAt("blend")
    /\ num' = [num EXCEPT !.pc = "blend", !.w_in = num.w,
                          !.w = blend_w_to_zero_at_sfc(num.w, zmax)]
    /\ UNCHANGED pipeline

(* lines 345-356: the rule that splits the correction between u and v is   *)
(* not in this file; the corrector leaves some u and v of the same shape.  *)
KCorrectDiv ==
    /\ KAt("correct_div")
    /\ \E u \in UFields, v \in VFields :
          num' = [num EXCEPT !.pc = "correct_div", !.u = u, !.v = v]
    /\ UNCHANGED pipeline

(* lines 361-374 *)
KCalcW ==
    /\ KAt("calc_w")
    /\ num' = [num EXCEPT !.pc = "calc_w",
                          !.w = calc_w_from_uv(num.w, num.u, num.v, num.r, ktot_calc_w(dzSeq))]
    /\ UNCHANGED pipeline

(* lines 377-391 *)
KCheckDiv ==
    /\ KAt("check_div")
    /\ num' = [num EXCEPT !.pc = "check_div",
                          !.div = check_divergence(num.u, num.v, num.w, num.r, ktot_check_div(dzSeq))]
    /\ UNCHANGED pipeline

(* lines 394-397 *)
KSave ==
    /\ KAt("save")
    /\ num' = [num EXCEPT !.pc = "save",
                          !.ic = [u |-> SavedField(AllLevels(num.u)),
                                  v |-> SavedField(AllLevels(num.v)),
                                  w |-> SavedField(SliceTopOff(num.w))]]
    /\ UNCHANGED pipeline

(* lines 400-408 *)
KLbc ==
    /\ KAt("lbc")
    /\ num' = [num EXCEPT !.pc = "lbc"]
    /\ UNCHANGED pipeline

(* line 125 *)
KSaveField ==
    /\ pc = "kernels"
    /\ num.kernel = "save_3d_field"
    /\ num.pc = "start"
    /\ num' = [num EXCEPT !.pc = "done",
                          !.out = TofileInterior(num.ktot, num.jtot, num.itot, num.n_pad)]
    /\ UNCHANGED pipeline

KNext ==
    \/ KFilter
    \/ KBlend
    \/ KCorrectDiv
    \/ KCalcW
    \/ KCheckDiv
    \/ KSave
    \/ KLbc
    \/ KSaveField

KernelSpec == KInit /\ [][KNext]_vars

-----------------------------------------------------------------------------
(* Properties.                                                             *)

ScalarTaskIds == 1..Len(sTasks)
MomentumTaskIds == 1..Len(mTasks)
Written(r) == r \in DOMAIN lbc_ds /\ lbc_ds[r].writers # {}
Times == 0..(time_size - 1)
LocNames == Range(Locs)
HasAllMomentum == {"u", "v", "w"} \subseteq Range(fields_era)
ScalarKeys == Range(fields_era) \ {"u", "v", "w"}

\* C1: every (variable, side, time) record of the LBC container is written
\* by at most one task, whatever the interleaving.
C1_DisjointRecords ==
    \A r \in DOMAIN lbc_ds : Cardinality(lbc_ds[r].writers) <= 1

\* A scalar task and a momentum task have each written the same side and
\* time of different variables, while one momentum task is done and another
\* is about to write its own records.
C1_Witness ==
    /\ \E i, j \in MomentumTaskIds : mTasks[i].pc = "done" /\ mTasks[j].pc = "lbc"
    /\ \E r1, r2 \in DOMAIN lbc_ds :
          /\ r1[2] = r2[2] /\ r1[3] = r2[3]
          /\ \E i \in ScalarTaskIds : lbc_ds[r1].writers = {STask(i)}
          /\ \E j \in MomentumTaskIds : lbc_ds[r2].writers = {MTask(j)}

\* C2: a parse_momentum task exists or runs only once every parse_scalar
\* task of the run has finished.
C2_ScalarsBeforeMomentum ==
    (\E j \in MomentumTaskIds : mTasks[j].pc # "pending")
        => \A i \in ScalarTaskIds : sTasks[i].pc = "done"

\* A momentum task runs in a run that had scalar tasks.
C2_Witness ==
    /\ Len(sTasks) >= 2
    /\ \E j \in MomentumTaskIds : mTasks[j].pc = "interpolate_u"

\* C3: when one of u, v, w is absent no momentum task is ever created and no
\* u/v/w file or LBC record is written, and a run that returns has completed
\* every scalar task and holds every scalar output.
C3_MomentumSkipped ==
    ~HasAllMomentum =>
        /\ mTasks = <<>>
        /\ \A n \in {"u", "v", "w"} :
              /\ FieldPath(n, name_suffix, output_dir) \notin DOMAIN files
              /\ \A l \in LocNames, t \in Times : ~Written(<<n, l, t>>)
        /\ pc = "returned" =>
              /\ \A i \in ScalarTaskIds : sTasks[i].pc = "done"
              /\ \A n \in ScalarKeys, t \in Times :
                    /\ \E i \in ScalarTaskIds : sTasks[i].name = n /\ sTasks[i].t = t
                    /\ \A l \in LocNames : Written(<<n, l, t>>)
                    /\ FieldPath(n, name_suffix, output_dir) \in DOMAIN files

\* The run returned with w supplied, u and v absent, and two scalars processed.
C3_Witness ==
    /\ pc = "returned"
    /\ Range(fields_era) \cap {"u", "v", "w"} = {"w"}
    /\ Cardinality(ScalarKeys) = 2
    /\ time_size = 2

\* The values parse_momentum holds after w reconstruction, for timestep t.
Filtered(fld) == IF sigma_n > 0 THEN GaussianFilter(fld, sigma_n) ELSE fld
U_f(t) == Filtered(Interpolate("u", t, "u", "z"))
V_f(t) == Filtered(Interpolate("v", t, "v", "z"))
W_b(t) == BlendW(Filtered(Interpolate("w", t, "s", "zh")))
U_c(t) == CorrectDiv("u", U_f(t), V_f(t), W_b(t))
V_c(t) == CorrectDiv("v", U_f(t), V_f(t), W_b(t))
W_r(t) == CalcW(W_b(t), U_c(t), V_c(t))
FinalMomentum(n, t) == IF n = "u" THEN U_c(t) ELSE IF n = "v" THEN V_c(t) ELSE W_r(t)
DiagnosticLogged(t) ==
    [level |-> "debug", msg |-> "max_divergence", t |-> t,
     val |-> CheckDivergence(U_c(t), V_c(t), W_r(t))] \in log

\* C4: parse_momentum interpolates, filters, blends w, corrects u and v,
\* reconstructs w, runs the diagnostic, writes the initial files (t = 0) and
\* then the LBC slices: whatever it has written is the value after correction
\* and reconstruction, and the diagnostic has reported before any write.
C4_MomentumOrder ==
    /\ \A n \in {"u", "v", "w"}, l \in LocNames, t \in Times :
          Written(<<n, l, t>>) =>
              /\ lbc_ds[<<n, l, t>>].val = FinalMomentum(n, t)
              /\ DiagnosticLogged(t)
              /\ t = 0 => \A m \in {"u", "v", "w"} :
                              FieldPath(m, name_suffix, output_dir) \in DOMAIN files
    /\ \A n \in {"u", "v", "w"} :
          FieldPath(n, name_suffix, output_dir) \in DOMAIN files =>
              /\ files[FieldPath(n, name_suffix, output_dir)].val =
                     (IF n = "w" THEN DropTopLevel(W_r(0)) ELSE FinalMomentum(n, 0))
              /\ DiagnosticLogged(0)
    /\ \A i \in MomentumTaskIds :
          /\ mTasks[i].pc \in {"check_div", "save", "lbc"} =>
                /\ BufVal(heap, mTasks[i].u) = U_c(mTasks[i].t)
                /\ BufVal(heap, mTasks[i].v) = V_c(mTasks[i].t)
                /\ BufVal(heap, mTasks[i].w) = W_r(mTasks[i].t)
          /\ mTasks[i].pc = "correct_div" => BufVal(heap, mTasks[i].w) = W_b(mTasks[i].t)

\* A filtered run returned with the momentum files and every momentum record written.
C4_Witness ==
    /\ pc = "returned"
    /\ sigma_n > 0
    /\ time_size = 2
    /\ FieldPath("w", name_suffix, output_dir) \in DOMAIN files
    /\ \A n \in {"u", "v", "w"}, l \in LocNames, t \in Times : Written(<<n, l, t>>)

ScalarValue(n, t) == Filtered(Interpolate(n, t, "s", "z"))

\* C5: parse_scalar for (name, t) writes the interpolated and filtered field:
\* the initial file exactly when t = 0, and the four sides of the variable at
\* record t for every t.
C5_ScalarPipeline ==
    \A i \in ScalarTaskIds :
        LET n == sTasks[i].name
            t == sTasks[i].t
            p == FieldPath(n, name_suffix, output_dir)
            saved == p \in DOMAIN files /\ STask(i) \in files[p].writers
        IN /\ saved => t = 0 /\ files[p].val = ScalarValue(n, t)
           /\ \A l \in LocNames :
                 STask(i) \in lbc_ds[<<n, l, t>>].writers =>
                     /\ lbc_ds[<<n, l, t>>].val = ScalarValue(n, t)
                     /\ t = 0 => saved
           /\ sTasks[i].pc = "done" =>
                 \A l \in LocNames : STask(i) \in lbc_ds[<<n, l, t>>].writers

\* With filtering on, the tasks of a scalar for t = 0 and for t = 1 are both done.
C5_Witness ==
    /\ sigma_n > 0
    /\ \E i, j \in ScalarTaskIds :
          /\ sTasks[i].name = sTasks[j].name
          /\ sTasks[i].t = 0 /\ sTasks[j].t = 1
          /\ sTasks[i].pc = "done" /\ sTasks[j].pc = "done"

SomeTaskRaised ==
    \/ \E i \in ScalarTaskIds : sTasks[i].pc = "failed"
    \/ \E i \in MomentumTaskIds : mTasks[i].pc = "failed"

\* C6: once a task has raised, create_era5_input never returns normally: the
\* run can only go on until it ends by raising, and nothing but
\* initial-condition snapshots is on disk (no LBC container).
C6_FailurePropagates ==
    SomeTaskRaised =>
        /\ pc # "returned"
        /\ pc # "raised" => ENABLED Next
        /\ pc = "raised" => \A i \in ScalarTaskIds \cup MomentumTaskIds :
                                /\ i \in ScalarTaskIds => ~Running(sTasks[i].pc)
                                /\ i \in MomentumTaskIds => ~Running(mTasks[i].pc)
        /\ \A p \in DOMAIN files : files[p].kind = "field3d"

\* The run ended by raising after a momentum task failed while another
\* momentum task had completed.
C6_Witness ==
    /\ pc = "raised"
    /\ \E i, j \in MomentumTaskIds : mTasks[i].pc = "failed" /\ mTasks[j].pc = "done"

\* C7: when create_era5_input has returned, every record of every variable
\* of fields_era, at every side and timestep, has been written by a task.
C7_AllRecordsPopulated ==
    pc = "returned" =>
        \A n \in Range(fields_era), l \in LocNames, t \in Times : Written(<<n, l, t>>)

SomeMomentumSupplied == Range(fields_era) \cap {"u", "v", "w"} # {}
MomentumIncomplete == SomeMomentumSupplied /\ ~HasAllMomentum

\* C8 as stated: with a momentum component missing and another supplied, no
\* task is ever processed and the run does not return normally.
C8_MissingComponentAborts ==
    MomentumIncomplete =>
        /\ pc # "returned"
        /\ \A i \in ScalarTaskIds : sTasks[i].pc = "pending"

\* C8 as amended: with a momentum component missing and another supplied, the
\* scalar group runs first; the run then logs a warning, creates no momentum
\* task and returns normally, and it raises only if a scalar task raised.
C8_MissingComponentWarns ==
    MomentumIncomplete =>
        /\ mTasks = <<>>
        /\ pc \notin {"momentum_wait", "momentum_unwind"}
        /\ ([level |-> "warning", msg |-> "momentum_missing", t |-> 0, val |-> Empty] \in log)
               <=> pc = "returned"
        /\ pc = "returned" => \A i \in ScalarTaskIds : sTasks[i].pc = "done"
        /\ pc = "raised" => \E i \in ScalarTaskIds : sTasks[i].pc = "failed"
        /\ pc = "momentum_check" => ENABLED MomentumSkip

\* The run returned with only w missing, after scalar tasks had run.
C8_Witness ==
    /\ pc = "returned"
    /\ Range(fields_era) \cap {"u", "v", "w"} = {"u", "v"}
    /\ Len(sTasks) >= 2
    /\ log # {}

\* C9: the tasks submitted are one parse_scalar task per (name, t) with name
\* a key other than u, v, w and 0 <= t < time_era.size, and, when u, v, w are
\* all present, one parse_momentum task per t; none twice, none omitted.
C9_ExactTaskSet ==
    /\ pc \notin {"setup", "scalar_submit"} =>
          /\ \A n \in ScalarKeys, t \in Times :
                Cardinality({i \in ScalarTaskIds : sTasks[i].name = n /\ sTasks[i].t = t}) = 1
          /\ \A i \in ScalarTaskIds : sTasks[i].name \in ScalarKeys /\ sTasks[i].t \in Times
    /\ pc \in {"setup", "scalar_submit"} => sTasks = <<>>
    /\ pc \in {"momentum_wait", "momentum_unwind"}
       \/ (pc \in {"returned", "raised"} /\ HasAllMomentum
           /\ \A i \in ScalarTaskIds : sTasks[i].pc = "done") =>
          /\ \A t \in Times : Cardinality({i \in MomentumTaskIds : mTasks[i].t = t}) = 1
          /\ \A i \in MomentumTaskIds : mTasks[i].t \in Times
    /\ ~HasAllMomentum \/ pc \notin {"momentum_wait", "momentum_unwind", "returned", "raised"}
          => mTasks = <<>>

\* Both groups were submitted: four scalar tasks, then two momentum tasks.
C9_Witness ==
    /\ pc = "momentum_wait"
    /\ Len(sTasks) = 4
    /\ Len(mTasks) = 2

\* C10: every running task holds buffers it
\* allocated itself (fld_les; u, v, w, three distinct buffers), so no buffer
\* is reachable from two tasks.
C10_OwnBuffers ==
    /\ \A i \in ScalarTaskIds :
          Running(sTasks[i].pc) =>
              /\ sTasks[i].fld \in DOMAIN heap
              /\ heap[sTasks[i].fld].owner = STask(i)
    /\ \A i \in MomentumTaskIds :
          Running(mTasks[i].pc) =>
              /\ {mTasks[i].u, mTasks[i].v, mTasks[i].w} \subseteq DOMAIN heap
              /\ Cardinality({mTasks[i].u, mTasks[i].v, mTasks[i].w}) = 3
              /\ \A b \in {mTasks[i].u, mTasks[i].v, mTasks[i].w} : heap[b].owner = MTask(i)
    /\ \A i \in ScalarTaskIds : ~Running(sTasks[i].pc) => sTasks[i].fld = 0
    /\ \A b \in DOMAIN heap :
          \/ \E i \in ScalarTaskIds : heap[b].owner = STask(i) /\ Running(sTasks[i].pc)
          \/ \E i \in MomentumTaskIds : heap[b].owner = MTask(i) /\ Running(mTasks[i].pc)

\* Two momentum tasks work at the same time on six distinct buffers.
C10_Witness ==
    /\ Cardinality(DOMAIN heap) = 6
    /\ \E i, j \in MomentumTaskIds :
          /\ i # j
          /\ mTasks[i].pc = "correct_div"
          /\ mTasks[j].pc = "calc_w"

\* C11: the interpolation-factor tables and the boundary slice map are empty
\* until setup, during which no task exists; in every later state they hold
\* what setup computed.
C11_SharedTablesReadOnly ==
    /\ pc = "setup" =>
          /\ ip_facs = <<>> /\ lbc_slices = <<>>
          /\ sTasks = <<>> /\ mTasks = <<>>
    /\ pc # "setup" =>
          /\ ip_facs = setup_interpolations
          /\ lbc_slices = setup_lbc_slices(n_ghost, n_sponge)

\* Scalar and momentum tasks have both looked slices up and finished.
C11_Witness ==
    /\ pc = "returned"
    /\ \E i \in ScalarTaskIds : sTasks[i].pc = "done"
    /\ \E i \in MomentumTaskIds : mTasks[i].pc = "done"
    /\ DOMAIN lbc_slices # {}

\* C12: when the run has returned, every written LBC record and every
\* initial file holds a value that is a function of the variable, the
\* timestep and sigma_n alone: the same for every interleaving and every
\* pool size, and the same if the task that wrote it runs again.
C12_Deterministic ==
    pc = "returned" =>
        /\ \A r \in DOMAIN lbc_ds :
              Written(r) =>
                  lbc_ds[r].val = (IF r[1] \in {"u", "v", "w"} THEN FinalMomentum(r[1], r[3])
                                   ELSE ScalarValue(r[1], r[3]))
        /\ \A p \in DOMAIN files :
              \E n \in Range(fields_era) :
                  /\ p = FieldPath(n, name_suffix, output_dir)
                  /\ files[p].val = (IF n = "w" THEN DropTopLevel(W_r(0))
                                     ELSE IF n \in {"u", "v"} THEN FinalMomentum(n, 0)
                                     ELSE ScalarValue(n, 0))

\* A run with two workers returned after writing every record and file of
\* two scalars and the three momentum components at two timesteps.
C12_Witness ==
    /\ pc = "returned"
    /\ ntasks = 2
    /\ time_size = 2
    /\ Len(fields_era) = 5
    /\ \A r \in DOMAIN lbc_ds : Written(r)
    /\ Cardinality(DOMAIN files) = 5

\* C13: at most ntasks tasks execute at any time, in the scalar pool and in
\* the momentum pool.
C13_PoolBounded ==
    /\ NumRunning(sTasks) <= ntasks
    /\ NumRunning(mTasks) <= ntasks

\* The pool is full (two workers busy) while a task still waits in the queue.
C13_Witness ==
    /\ ntasks = 2
    /\ NumRunning(sTasks) = 2
    /\ \E i \in ScalarTaskIds : sTasks[i].pc = "pending"

MomentumBuffers(ts, h, i) == <<BufVal(h, ts[i].u), BufVal(h, ts[i].v), BufVal(h, ts[i].w)>>

\* C17: the step that runs the divergence diagnostic leaves u, v and w as
\* they were and always goes on to the writes (the initial files at t = 0,
\* else the LBC slices), so the written values are those right after w
\* reconstruction.
C17_DiagnosticReadOnly ==
    [][\A i \in MomentumTaskIds :
          (mTasks[i].pc = "check_div" /\ mTasks'[i].pc # "check_div") =>
              /\ mTasks'[i].pc = (IF mTasks[i].t = 0 THEN "save" ELSE "lbc")
              /\ MomentumBuffers(mTasks', heap', i) = MomentumBuffers(mTasks, heap, i)
              /\ MomentumBuffers(mTasks, heap, i) =
                     <<U_c(mTasks[i].t), V_c(mTasks[i].t), W_r(mTasks[i].t)>>
              /\ lbc_ds' = lbc_ds /\ files' = files]_vars

\* The diagnostic has reported for both timesteps and both tasks went on to write.
C17_Witness ==
    /\ DiagnosticLogged(0) /\ DiagnosticLogged(1)
    /\ \E i, j \in MomentumTaskIds :
          /\ mTasks[i].pc = "save" /\ mTasks[j].pc = "done"

RECURSIVE Unfiltered(_)
Unfiltered(fld) == IF fld.op = "gaussian_filter" THEN Unfiltered(fld.in[1]) ELSE fld

\* C19: the u table is used for u alone and the v table for v alone, every
\* other name (w included) gets the scalar table; u and v are interpolated
\* onto full levels, w onto half levels, every scalar onto full levels with
\* the scalar table.
C19_StaggeredTables ==
    /\ \A n \in AllNames :
          /\ get_interpolation_factors(n) = "u" <=> n = "u"
          /\ get_interpolation_factors(n) = "v" <=> n = "v"
          /\ n \notin {"u", "v"} => get_interpolation_factors(n) = "s"
    /\ \A i \in ScalarTaskIds :
          sTasks[i].pc \in {"filter", "save", "lbc"} =>
              Unfiltered(BufVal(heap, sTasks[i].fld)) =
                  Interpolate(sTasks[i].name, sTasks[i].t, "s", "z")
    /\ \A i \in MomentumTaskIds :
          /\ mTasks[i].pc \in {"interpolate_v", "interpolate_w", "filter", "blend"} =>
                Unfiltered(BufVal(heap, mTasks[i].u)) = Interpolate("u", mTasks[i].t, "u", "z")
          /\ mTasks[i].pc \in {"interpolate_w", "filter", "blend"} =>
                Unfiltered(BufVal(heap, mTasks[i].v)) = Interpolate("v", mTasks[i].t, "v", "z")
          /\ mTasks[i].pc \in {"filter", "blend"} =>
                Unfiltered(BufVal(heap, mTasks[i].w)) = Interpolate("w", mTasks[i].t, "s", "zh")

\* A momentum task has interpolated u, v and w while w is among the keys,
\* after scalar tasks interpolated theirs.
C19_Witness ==
    /\ "w" \in Range(fields_era)
    /\ \E i \in ScalarTaskIds : sTasks[i].pc = "done"
    /\ \E i \in MomentumTaskIds : mTasks[i].pc = "blend"

\* C20: once a parse_scalar task has raised, no parse_momentum task is ever
\* submitted or started.
C20_ScalarFailureStopsMomentum ==
    (\E i \in ScalarTaskIds : sTasks[i].pc = "failed") =>
        /\ mTasks = <<>>
        /\ pc \in {"scalar_wait", "scalar_unwind", "raised"}

\* The run ended by raising after a scalar task failed although u, v, w were
\* all supplied and other scalar tasks completed.
C20_Witness ==
    /\ pc = "raised"
    /\ HasAllMomentum
    /\ \E i, j \in ScalarTaskIds : sTasks[i].pc = "failed" /\ sTasks[j].pc = "done"

RECURSIVE NumFilters(_)
NumFilters(fld) ==
    IF fld.op = "gaussian_filter" THEN 1 + NumFilters(fld.in[1]) ELSE 0

FilterCount == IF sigma_n > 0 THEN 1 ELSE 0

\* C14: with sigma_n <= 0 no task runs the filter and the field reaches the
\* next stage as interpolated; with sigma_n > 0 the scalar field has been
\* filtered exactly once when it is written, and u, v and w have each been
\* filtered exactly once (all three or none) when w is blended.
C14_FilterOnceOrNever ==
    /\ pc # "setup" /\ sigma_n <= 0 =>
          /\ \A i \in ScalarTaskIds : sTasks[i].pc # "filter"
          /\ \A i \in MomentumTaskIds : mTasks[i].pc # "filter"
    /\ \A i \in ScalarTaskIds :
          sTasks[i].pc \in {"save", "lbc"} =>
              NumFilters(BufVal(heap, sTasks[i].fld)) = FilterCount
    /\ \A i \in MomentumTaskIds :
          mTasks[i].pc = "blend" =>
              /\ NumFilters(BufVal(heap, mTasks[i].u)) = FilterCount
              /\ NumFilters(BufVal(heap, mTasks[i].v)) = FilterCount
              /\ NumFilters(BufVal(heap, mTasks[i].w)) = FilterCount
    /\ \A r \in DOMAIN lbc_ds :
          Written(r) /\ r[1] \notin {"u", "v", "w"} =>
              NumFilters(lbc_ds[r].val) = FilterCount

\* With a negative sigma_n a scalar task has written its unfiltered field
\* and a momentum task is about to blend its unfiltered w.
C14_Witness ==
    /\ sigma_n < 0
    /\ \E i \in ScalarTaskIds : sTasks[i].pc = "done"
    /\ \E r \in DOMAIN lbc_ds : Written(r) /\ r[1] = "thl"
    /\ \E i \in MomentumTaskIds : mTasks[i].pc = "blend"

KMomentum == pc = "kernels" /\ num.kernel = "parse_momentum"
KPoints(nk) == (1..nk) \X (1..jtot_pad) \X (1..itot_pad)

\* C15: whatever sigma_n, w is blended after the filter and before the
\* divergence correction: when u and v are about to be corrected (and until
\* w is reconstructed) w is exactly 0 at the lowest half level in every
\* column, equal to its value before the blend at every half level at or
\* above the blend height, and the filter has run first iff sigma_n > 0.
C15_BlendBeforeCorrection ==
    KMomentum =>
        /\ num.pc = "filter" => num.sn > 0 /\ num.w_in = <<>>
        /\ num.pc \in {"correct_div", "calc_w", "check_div", "lbc"} => num.w_in # <<>>
        /\ num.pc \in {"blend", "correct_div"} =>
              \A p \in KPoints(NumLevels + 1) :
                  /\ p[1] = 1 => num.w[p[1]][p[2]][p[3]] = <<0, 1>>
                  /\ zh(p[1]) >= zmax =>
                        num.w[p[1]][p[2]][p[3]] = num.w_in[p[1]][p[2]][p[3]]

\* A filtered w that is nonzero at the surface and above the blend height
\* has been blended; u and v are about to be corrected.
C15_Witness ==
    /\ KMomentum
    /\ num.pc = "blend"
    /\ num.sn > 0
    /\ \E j \in 1..jtot_pad, i \in 1..itot_pad :
          /\ num.w_in[1][j][i] # <<0, 1>>
          /\ num.w[1][j][i] = <<0, 1>>
          /\ num.w[NumLevels + 1][j][i] # <<0, 1>>
          /\ num.w[2][j][i] # num.w_in[2][j][i]

\* C16: after w is reconstructed over the interior bounds and level count
\* that the diagnostic uses, the diagnostic finds a continuity residual of
\* exactly zero at every interior point and level.
C16_DivergenceFree ==
    KMomentum /\ num.pc \in {"check_div", "lbc"} =>
        /\ num.div.div_max = <<0, 1>>
        /\ DOMAIN num.div.res =
               {p \in KPoints(NumLevels) : Interior(p[2], p[3])}
        /\ \A p \in DOMAIN num.div.res : num.div.res[p] = <<0, 1>>

\* The diagnostic ran on winds with nonzero horizontal divergence, a density
\* that varies with height and a reconstructed w that is nonzero aloft.
C16_Witness ==
    /\ KMomentum
    /\ num.pc = "check_div"
    /\ num.r = 1
    /\ \E p \in DOMAIN num.div.res :
          /\ HDiv(num.u, num.v, p[1], p[2], p[3]) # <<0, 1>>
          /\ num.w[NumLevels + 1][p[2]][p[3]] # <<0, 1>>
          /\ num.w[NumLevels + 1][p[2]][p[3]] # num.w_in[NumLevels + 1][p[2]][p[3]]

KSaved == pc = "kernels" /\ num.kernel = "save_3d_field" /\ num.pc = "done"

\* C18: for every n_pad >= 0, save_3d_field writes, for every level, rows
\* n_pad..jtot-n_pad-1 and columns n_pad..itot-n_pad-1 of the field, that is
\* (jtot - 2 n_pad) * (itot - 2 n_pad) points per level, level-major and then
\* row-major.
C18_InteriorWritten ==
    KSaved =>
        LET nj == num.jtot - 2 * num.n_pad
            ni == num.itot - 2 * num.n_pad
        IN  /\ Len(num.out) = num.ktot * nj * ni
            /\ \A k \in 0..(num.ktot - 1), j \in 0..(nj - 1), i \in 0..(ni - 1) :
                  num.out[k * nj * ni + j * ni + i + 1] = <<k, num.n_pad + j, num.n_pad + i>>

\* Fields with padding: the interior is written in that order.
C18_PaddedInteriorWritten ==
    KSaved /\ num.n_pad >= 1 =>
        LET nj == num.jtot - 2 * num.n_pad
            ni == num.itot - 2 * num.n_pad
        IN  /\ Len(num.out) = num.ktot * nj * ni
            /\ \A k \in 0..(num.ktot - 1), j \in 0..(nj - 1), i \in 0..(ni - 1) :
                  num.out[k * nj * ni + j * ni + i + 1] = <<k, num.n_pad + j, num.n_pad + i>>

\* Without padding nothing is written although the field is not empty.
C18_EmptyWithoutPadding ==
    /\ KSaved
    /\ num.n_pad = 0
    /\ num.jtot * num.itot * num.ktot > 0
    /\ num.out = <<>>

\* The task that handles variable n at timestep 0.
FirstTaskOf(n) ==
    IF n \in {"u", "v", "w"}
    THEN {MTask(i) : i \in {j \in MomentumTaskIds : mTasks[j].t = 0}}
    ELSE {STask(i) : i \in {j \in ScalarTaskIds : sTasks[j].name = n /\ sTasks[j].t = 0}}

Processed == ScalarKeys \cup (IF HasAllMomentum THEN {"u", "v", "w"} ELSE {})

\* C21: no file path is ever written by two tasks; when a run with at least
\* one timestep has returned, the initial file of every processed variable
\* exists and was written by that variable's t = 0 task alone, and no other
\* file exists; for an empty and for a non-empty suffix, distinct variable
\* names give distinct paths.
C21_InitialFilesOnce ==
    /\ \A p \in DOMAIN files : Cardinality(files[p].writers) = 1
    /\ pc = "returned" /\ time_size >= 1 =>
          /\ \A n \in Processed :
                LET p == FieldPath(n, name_suffix, output_dir) IN
                /\ p \in DOMAIN files
                /\ Cardinality(FirstTaskOf(n)) = 1
                /\ files[p].writers = FirstTaskOf(n)
          /\ Cardinality(DOMAIN files) = Cardinality(Processed)
    /\ \A sfx \in {"", "era5"} : \A n1, n2 \in AllNames :
          FieldPath(n1, sfx, output_dir) = FieldPath(n2, sfx, output_dir) => n1 = n2

\* A run over two timesteps with two workers returned after writing the
\* files of two scalars and of u, v, w.
C21_Witness ==
    /\ pc = "returned"
    /\ time_size = 2
    /\ ntasks = 2
    /\ Cardinality(ScalarKeys) = 2
    /\ HasAllMomentum
    /\ Cardinality(DOMAIN files) = 5
    /\ \A i \in ScalarTaskIds : sTasks[i].pc = "done"
    /\ \A i \in MomentumTaskIds : mTasks[i].pc = "done"

InteriorPerLevel == (jend_pad - jstart_pad + 1) * (iend_pad - istart_pad + 1)

\* C22: the w file written at t = 0 holds the lowest count(z) of the
\* count(z) + 1 half levels of the w buffer and nothing of the top one: it
\* has as many levels as the u and v files, which is the length of zh[:-1],
\* the half-level coordinate of the LBC container.
C22_TopHalfLevelOmitted ==
    KMomentum /\ num.t = 0 /\ num.pc \in {"save", "lbc"} =>
        /\ Len(num.w) = NumLevels + 1
        /\ Len(num.ic.w) = NumLevels * InteriorPerLevel
        /\ Len(num.ic.u) = Len(num.ic.w)
        /\ Len(num.ic.v) = Len(num.ic.w)
        /\ lbc_zh_levels * InteriorPerLevel = Len(num.ic.w)
        /\ \A k \in 1..NumLevels, j \in jstart_pad..jend_pad, i \in istart_pad..iend_pad :
              num.ic.w[(k - 1) * InteriorPerLevel
                       + (j - jstart_pad) * (iend_pad - istart_pad + 1)
                       + (i - istart_pad) + 1] = num.w[k][j][i]

\* The files were written from a w buffer whose top half level is nonzero
\* and differs from the level below it.
C22_Witness ==
    /\ KMomentum
    /\ num.t = 0
    /\ num.pc = "save"
    /\ \E j \in jstart_pad..jend_pad, i \in istart_pad..iend_pad :
          /\ num.w[NumLevels + 1][j][i] # <<0, 1>>
          /\ num.w[NumLevels + 1][j][i] # num.w[NumLevels][j][i]

FilterWanted == IF sigma_h > 0 THEN 1 ELSE 0

\* C23: after setup sigma_n is the smallest integer n with n * dx >= sigma_h
\* and stays so for every task of the run; the filter runs in a task iff
\* sigma_h > 0, and 0 < sigma_h <= dx gives sigma_n = 1.
C23_SigmaIsCeiling ==
    pc # "setup" =>
        /\ sigma_n * dx >= sigma_h
        /\ (sigma_n - 1) * dx < sigma_h
        /\ sigma_n > 0 <=> sigma_h > 0
        /\ 0 < sigma_h /\ sigma_h <= dx => sigma_n = 1
        /\ \A i \in ScalarTaskIds :
              /\ sTasks[i].pc = "filter" => sigma_h > 0
              /\ sTasks[i].pc \in {"save", "lbc"} =>
                    BufVal(heap, sTasks[i].fld) =
                        (IF sigma_h > 0
                         THEN GaussianFilter(Interpolate(sTasks[i].name, sTasks[i].t, "s", "z"),
                                             sigma_n)
                         ELSE Interpolate(sTasks[i].name, sTasks[i].t, "s", "z"))
        /\ \A i \in MomentumTaskIds :
              /\ mTasks[i].pc = "filter" => sigma_h > 0
              /\ mTasks[i].pc = "blend" =>
                    BufVal(heap, mTasks[i].w) =
                        (IF sigma_h > 0
                         THEN GaussianFilter(Interpolate("w", mTasks[i].t, "s", "zh"), sigma_n)
                         ELSE Interpolate("w", mTasks[i].t, "s", "zh"))

\* A length scale of half a grid cell gave sigma_n = 1; a scalar task has
\* finished and a momentum task has filtered with it.
C23_Witness ==
    /\ sigma_h = 50
    /\ sigma_n = 1
    /\ \E i \in ScalarTaskIds : sTasks[i].pc = "done"
    /\ \E i \in MomentumTaskIds :
          /\ mTasks[i].pc = "blend"
          /\ NumFilters(BufVal(heap, mTasks[i].w)) = 1

AllExecuted ==
    /\ \A i \in ScalarTaskIds : sTasks[i].pc = "done"
    /\ \A i \in MomentumTaskIds : mTasks[i].pc = "done"

Finished == pc \in {"returned", "raised"}

\* C24: under fair scheduling of the driver and the workers, the run always
\* ends; if no task raises it returns normally with every submitted scalar
\* and momentum task executed, for every pool size and task count (none
\* included); and the driver is blocked only while the pool it waits for
\* still holds an unfinished task.
C24_EventuallyReturns ==
    /\ <>Finished
    /\ ([]~SomeTaskRaised) =>
          <>(/\ pc = "returned"
             /\ AllExecuted
             /\ Len(sTasks) = Cardinality(ScalarKeys) * time_size
             /\ Len(mTasks) = (IF HasAllMomentum THEN time_size ELSE 0))
    /\ [](~Finished /\ ~ENABLED Driver =>
             \/ /\ pc \in {"scalar_wait", "scalar_unwind"}
                /\ \E i \in ScalarTaskIds : ~FutureDone(sTasks[i].pc)
             \/ /\ pc \in {"momentum_wait", "momentum_unwind"}
                /\ \E i \in MomentumTaskIds : ~FutureDone(mTasks[i].pc))

\* A single worker executed two scalar and two momentum tasks one after the
\* other and the run returned.
C24_Witness ==
    /\ pc = "returned"
    /\ ntasks = 1
    /\ Len(sTasks) = 2
    /\ Len(mTasks) = 2
    /\ AllExecuted

====
